---- MODULE Spec2Model ----
(***************************************************************************)
(* Model of generate_alternatives.py (route alternatives for the Cycling   *)
(* Copilot simulation): the climb detector, the scenario selector, the     *)
(* provider-or-synthesize loop of main() and the comparison builder.       *)
(*                                                                         *)
(* Number representation.  The program works on floats; the model works on *)
(* integers in fixed units:                                                *)
(*   lat, lng   : 1e-7 degree   (the output is rounded to 1e-6 degree)     *)
(*   alt (input): centimetre    (the output is rounded to 0.1 m)           *)
(*   t          : millisecond                                              *)
(*   distances  : millimetre inside sums, metre where the code rounds      *)
(* Program indices are zero-based as in the source; At(points, i) reads    *)
(* points[i].                                                              *)
(*                                                                         *)
(* Precision.  Indices, scenario lists, endpoint coordinates, ascents,     *)
(* durations and provenance flags are those of the program.  Distances     *)
(* agree with the floating-point haversine to about a metre, and the       *)
(* interior points of a synthesized arc to a few 1e-6 degree; no property  *)
(* below depends on either.                                                *)
(***************************************************************************)
EXTENDS Integers, Sequences, FiniteSets, TLC

VARIABLES
    pc,          \* position of main(): start, loop, got, build, write, done, crashed
    ORS_KEY,     \* TRUE iff the environment variable ORS_API_KEY is non-empty
    mock_only,   \* args.mock_only
    points,      \* the loaded route: sequence of [lat, lng, alt, t]
    segments,    \* segments.json: [named_sectors, gravel_sectors]
    min_gain_m,  \* find_climb_segments parameter (metres)
    window,      \* find_climb_segments parameter
    ci,          \* find_climb_segments: the outer loop's i
    climbs,      \* find_climb_segments: the climbs list
    scenarios,   \* result of pick_scenarios
    k,           \* main loop: number of the scenario being processed (1-based)
    route_data,  \* main loop: the geometry being built into a record
    source,      \* main loop: the local variable source
    alternatives,\* main(): the list of records
    output,      \* the written file, or NoOutput
    requests,    \* provider requests issued for the current scenario
    syntheses,   \* calls of generate_mock_alternative for the current scenario
    log          \* per appended record: [requests, syntheses, absent]

vars == <<pc, ORS_KEY, mock_only, points, segments, min_gain_m, window, ci,
          climbs, scenarios, k, route_data, source, alternatives, output,
          requests, syntheses, log>>

-----------------------------------------------------------------------------
(* Units and small helpers *)

\* centimetres per metre: altitudes are held in centimetres
AltUnit == 100

\* 2^LoopDepth bounds the iterations of any loop over the route's points
LoopDepth == 12

Abs(x) == IF x < 0 THEN -x ELSE x
MaxOf(a, b) == IF a >= b THEN a ELSE b
MinOf(a, b) == IF a <= b THEN a ELSE b

At(pts, i) == pts[i + 1]

-----------------------------------------------------------------------------
(* find_climb_segments, lines 101-123 *)

\* "Allow small dips (up to 10m) within a climb"
DipLimit == 10

\* the inner while's condition (line 109) and its break (line 116)
MutInnerCond(pts, s) == s.j < Len(pts) - 2 /\ ~s.brk
InnerCond(pts, s) == s.j < Len(pts) - 1 /\ ~s.brk

\* the inner while's body, lines 110-117
MutInnerBody(pts, s) ==
    LET delta == At(pts, s.j + 1).alt - At(pts, s.j).alt IN
    IF Abs(delta) > DipLimit * AltUnit /\ delta <= 0
    THEN [s EXCEPT !.brk = TRUE]
    ELSE [j |-> s.j + 1, gain |-> s.gain + delta, brk |-> FALSE]
InnerBody(pts, s) ==
    LET delta == At(pts, s.j + 1).alt - At(pts, s.j).alt IN
    IF delta > 0
    THEN [j |-> s.j + 1, gain |-> s.gain + delta, brk |-> FALSE]
    ELSE IF Abs(delta) > DipLimit * AltUnit
         THEN [s EXCEPT !.brk = TRUE]
         ELSE [s EXCEPT !.j = s.j + 1]

\* the inner while, iterated up to 2^e times (kept shallow for TLC's stack)
RECURSIVE InnerRun(_, _, _)
InnerRun(pts, s, e) ==
    IF ~InnerCond(pts, s) THEN s
    ELSE IF e = 0 THEN InnerBody(pts, s)
    ELSE InnerRun(pts, InnerRun(pts, s, e - 1), e - 1)

\* lines 107-117: gain = 0.0, j = i, then the inner while
InnerLoop(pts, i) == InnerRun(pts, [j |-> i, gain |-> 0, brk |-> FALSE], LoopDepth)

\* line 118: "enforce minimum climb length"
Qualifies(r, i, mg, w) == r.gain >= mg * AltUnit /\ (r.j - i) >= w

\* where the scan resumes after a qualifying run (line 120)
MutResumeAfter(j) == j
ResumeAfter(j) == j + 1

\* the outer while's condition, line 106
OuterCond(pts, s, w) == s.i < Len(pts) - w

\* the outer while's body, lines 107-122
OuterBody(pts, s, mg, w) ==
    LET r == InnerLoop(pts, s.i) IN
    IF Qualifies(r, s.i, mg, w)
    THEN [i |-> ResumeAfter(r.j), climbs |-> Append(s.climbs, <<s.i, r.j, r.gain>>)]
    ELSE [s EXCEPT !.i = s.i + 1]

RECURSIVE OuterRun(_, _, _, _, _)
OuterRun(pts, s, mg, w, e) ==
    IF ~OuterCond(pts, s, w) THEN s
    ELSE IF e = 0 THEN OuterBody(pts, s, mg, w)
    ELSE OuterRun(pts, OuterRun(pts, s, mg, w, e - 1), mg, w, e - 1)

find_climb_segments(pts, mg, w) ==
    OuterRun(pts, [i |-> 0, climbs |-> <<>>], mg, w, LoopDepth).climbs

-----------------------------------------------------------------------------
(* Values shared by the specifications *)

NoData == [none |-> TRUE]
NoOutput == [none |-> TRUE]
NoSegments == [named_sectors |-> <<>>, gravel_sectors |-> <<>>]

\* a route point that only carries an altitude (metres)
AltPoint(a) == [lat |-> 0, lng |-> 0, alt |-> a * AltUnit, t |-> 0]

-----------------------------------------------------------------------------
(* The climb detector run on its own: one outer iteration per step *)

\* longest altitude sequence enumerated exhaustively
MaxLen == 5
\* altitudes (metres) of the enumerated sequences: steps of 6 (noise when
\* downward), 12, 18, 30 (a break when downward)
ClimbAlts == {0, 6, 18, 30}
ClimbWindows == {1, 2, 3}
ClimbGains == {12, 24}

\* the spec's ramp: RampLen points rising RampGain metres in all
RampLen == 60
RampGains == {90, 150}
Ramp(n, g) == [x \in 1..n |->
                 [lat |-> 0, lng |-> 0, alt |-> (g * AltUnit * (x - 1)) \div (n - 1), t |-> 0]]

RECURSIVE AltSeqs(_)
AltSeqs(n) ==
    IF n = 0 THEN {<<>>}
    ELSE {Append(s, AltPoint(a)) : s \in AltSeqs(n - 1), a \in ClimbAlts}

ClimbInputs ==
    UNION {AltSeqs(n) : n \in 1..MaxLen}

InitClimb ==
    /\ pc = "climb"
    /\ \/ /\ points \in ClimbInputs
          /\ window \in ClimbWindows
          /\ min_gain_m \in ClimbGains
       \/ /\ points \in {Ramp(RampLen, g) : g \in RampGains}
          /\ window = 50
          /\ min_gain_m = 100
    /\ ci = 0
    /\ climbs = <<>>
    /\ ORS_KEY = FALSE /\ mock_only = FALSE
    /\ segments = NoSegments
    /\ scenarios = <<>> /\ k = 0 /\ route_data = NoData /\ source = ""
    /\ alternatives = <<>> /\ output = NoOutput
    /\ requests = 0 /\ syntheses = 0 /\ log = <<>>

\* one iteration of the outer while (lines 106-122)
ClimbStep ==
    /\ pc = "climb"
    /\ OuterCond(points, [i |-> ci, climbs |-> climbs], window)
    /\ LET s == OuterBody(points, [i |-> ci, climbs |-> climbs], min_gain_m, window) IN
       /\ ci' = s.i
       /\ climbs' = s.climbs
    /\ UNCHANGED <<pc, ORS_KEY, mock_only, points, segments, min_gain_m, window,
                   scenarios, k, route_data, source, alternatives, output,
                   requests, syntheses, log>>

\* line 123: return climbs
ClimbReturn ==
    /\ pc = "climb"
    /\ ~OuterCond(points, [i |-> ci, climbs |-> climbs], window)
    /\ pc' = "returned"
    /\ UNCHANGED <<ORS_KEY, mock_only, points, segments, min_gain_m, window, ci,
                   climbs, scenarios, k, route_data, source, alternatives, output,
                   requests, syntheses, log>>

NextClimb == ClimbStep \/ ClimbReturn

SpecClimb == InitClimb /\ [][NextClimb]_vars

-----------------------------------------------------------------------------
(* haversine, lines 91-98.                                                 *)
(* The routes of this model lie within a few hundredths of a degree of the *)
(* equator, where cos(lat) = 1 to seven digits and the great-circle        *)
(* distance is R * sqrt(dlat^2 + dlon^2) (angles in radians) to the same   *)
(* precision.  The result is in millimetres.                               *)

\* integer square root by Newton's iteration from a start x >= sqrt(n)
RECURSIVE Newton(_, _)
Newton(n, x) ==
    LET y == (x + n \div x) \div 2 IN
    IF y >= x THEN x ELSE Newton(n, y)

ISqrt(n, x0) == IF n = 0 THEN 0 ELSE Newton(n, x0)

\* sqrt(a^2 + b^2) for a, b >= 0; large arguments are scaled to keep the
\* squares inside TLC's 32-bit integers
RECURSIVE Hypot(_, _)
Hypot(a, b) ==
    IF MaxOf(a, b) <= 30000
    THEN ISqrt(a * a + b * b, a + b)
    ELSE 16 * Hypot(a \div 16, b \div 16)

\* R = 6371 km: one unit of 1e-7 degree of arc is R * pi / 180 * 1e-7
\* = 11.1195 mm; the constant is that length in 1e-4 mm
ArcUnit == 111195

haversine(lat1, lon1, lat2, lon2) ==
    LET h == Hypot(Abs(lat2 - lat1), Abs(lon2 - lon1)) IN
    h * (ArcUnit \div 10000) + (h * (ArcUnit % 10000) + 5000) \div 10000

\* round(x) of Python for x = a / b, b > 0: to nearest, ties to even
RoundDiv(a, b) ==
    LET q == a \div b
        r == a % b
    IN  IF 2 * r < b THEN q
        ELSE IF 2 * r > b THEN q + 1
        ELSE IF q % 2 = 0 THEN q ELSE q + 1

\* sum(haversine(seg[i], seg[i + 1]) for i in range(len(seg) - 1)) over
\* points[lo .. hi], lines 396-400 and 428-432 (millimetres)
RECURSIVE PathLength(_, _, _)
PathLength(pts, lo, hi) ==
    IF hi <= lo THEN 0
    ELSE IF hi = lo + 1
         THEN haversine(At(pts, lo).lat, At(pts, lo).lng, At(pts, hi).lat, At(pts, hi).lng)
         ELSE LET mid == (lo + hi) \div 2 IN
              PathLength(pts, lo, mid) + PathLength(pts, mid, hi)

\* sum(max(0, seg[i + 1].alt - seg[i].alt) ...), lines 433-436 (centimetres)
RECURSIVE PathAscent(_, _, _)
PathAscent(pts, lo, hi) ==
    IF hi <= lo THEN 0
    ELSE IF hi = lo + 1
         THEN MaxOf(0, At(pts, hi).alt - At(pts, lo).alt)
         ELSE LET mid == (lo + hi) \div 2 IN
              PathAscent(pts, lo, mid) + PathAscent(pts, mid, hi)

-----------------------------------------------------------------------------
(* find_gravel_sectors, lines 126-132 *)

\* sorted(..., key=from_index) is stable: x goes after the entries whose key
\* is not greater
RECURSIVE InsertSector(_, _)
InsertSector(sorted, x) ==
    IF sorted = <<>> THEN <<x>>
    ELSE IF sorted[Len(sorted)].from_index <= x.from_index
         THEN Append(sorted, x)
         ELSE Append(InsertSector(SubSeq(sorted, 1, Len(sorted) - 1), x),
                     sorted[Len(sorted)])

RECURSIVE SortSectors(_)
SortSectors(l) ==
    IF l = <<>> THEN <<>>
    ELSE InsertSector(SortSectors(SubSeq(l, 1, Len(l) - 1)), l[Len(l)])

find_gravel_sectors(segs) == SortSectors(segs.named_sectors \o segs.gravel_sectors)

-----------------------------------------------------------------------------
(* pick_scenarios, lines 135-272 *)

PickMinGain == 100
DefaultWindow == 50
FlatterMargin == 200
ShortcutStep == 100
ShortcutMinGap == 400
ShortcutMaxGap == 1000
ShortcutKm == 3
PavedMargin == 150
ScenicWindow == 300
ScenicStride == 50
ScenicClamp == 50
ShelterMargin == 300

\* float("inf"): larger than every distance and altitude range of the model
Infinity == 2000000000

\* max(seq, key): the first element with the greatest key
RECURSIVE FirstMaxBy(_, _, _, _)
FirstMaxBy(seq, keys, x, best) ==
    IF x > Len(seq) THEN seq[best]
    ELSE FirstMaxBy(seq, keys, x + 1, IF keys[x] > keys[best] THEN x ELSE best)

\* the keys of a sequence under the lambdas of lines 148 and 209
ClimbGain(cl) == [x \in 1..Len(cl) |-> cl[x][3]]
SectorLength(secs) == [x \in 1..Len(secs) |-> secs[x].distance_m]

Scenario(q, d, r, pref, prof) ==
    [query_value |-> q, diverge_index |-> d, rejoin_index |-> r,
     preference |-> pref, ors_profile |-> prof]

\* 1. FLATTER, lines 147-163
MutFlatterScenario(pts, cl) == <<>>
FlatterScenario(pts, cl) ==
    IF cl # <<>>
    THEN LET biggest == FirstMaxBy(cl, ClimbGain(cl), 2, 1) IN
         << Scenario("flatter",
                     MaxOf(0, biggest[1] - FlatterMargin),
                     MinOf(Len(pts) - 1, biggest[2] + FlatterMargin),
                     "recommended", "cycling-regular") >>
    ELSE <<>>

\* lines 175-178: one candidate pair
ShortcutTry(pts, st, i, j) ==
    LET d == haversine(At(pts, i).lat, At(pts, i).lng, At(pts, j).lat, At(pts, j).lng) IN
    IF d < st.best_dist /\ d < ShortcutKm * 1000000
    THEN [best_dist |-> d, best_shortcut |-> <<i, j>>]
    ELSE st

\* line 174: for j in range(i + 400, min(i + 1000, mid_end), step)
RECURSIVE ShortcutInner(_, _, _, _, _)
ShortcutInner(pts, st, i, j, stop) ==
    IF j >= stop THEN st
    ELSE ShortcutInner(pts, ShortcutTry(pts, st, i, j), i, j + ShortcutStep, stop)

\* line 173: for i in range(mid_start, mid_end, step)
RECURSIVE ShortcutOuter(_, _, _, _)
ShortcutOuter(pts, st, i, mid_end) ==
    IF i >= mid_end THEN st
    ELSE ShortcutOuter(pts,
                       ShortcutInner(pts, st, i, i + ShortcutMinGap,
                                     MinOf(i + ShortcutMaxGap, mid_end)),
                       i + ShortcutStep, mid_end)

\* 2. SHORTER, lines 167-205
ShorterScenario(pts) ==
    LET total_points == Len(pts)
        mid_start == total_points \div 3
        mid_end == (2 * total_points) \div 3
        st == ShortcutOuter(pts, [best_dist |-> Infinity, best_shortcut |-> <<>>],
                            mid_start, mid_end)
    IN  IF st.best_shortcut # <<>>
        THEN << Scenario("shorter", st.best_shortcut[1], st.best_shortcut[2],
                         "shortest", "cycling-regular") >>
        ELSE << Scenario("shorter", mid_start, mid_end,
                         "shortest", "cycling-regular") >>

\* 3. PAVED, lines 208-225
PavedScenario(pts, gravel_sectors) ==
    IF gravel_sectors # <<>>
    THEN LET longest_gravel == FirstMaxBy(gravel_sectors, SectorLength(gravel_sectors), 2, 1) IN
         << Scenario("paved",
                     MaxOf(0, longest_gravel.from_index - PavedMargin),
                     MinOf(Len(pts) - 1, longest_gravel.to_index + PavedMargin),
                     "recommended", "cycling-road") >>
    ELSE <<>>

\* max(alts) and min(alts) over points[lo .. hi], lines 235-236
RECURSIVE MaxAlt(_, _, _)
MaxAlt(pts, lo, hi) ==
    IF lo = hi THEN At(pts, lo).alt
    ELSE LET mid == (lo + hi) \div 2 IN
         MaxOf(MaxAlt(pts, lo, mid), MaxAlt(pts, mid + 1, hi))

RECURSIVE MinAlt(_, _, _)
MinAlt(pts, lo, hi) ==
    IF lo = hi THEN At(pts, lo).alt
    ELSE LET mid == (lo + hi) \div 2 IN
         MinOf(MinAlt(pts, lo, mid), MinAlt(pts, mid + 1, hi))

\* lines 234-239: for i in range(0, first_third_end - window, 50)
RECURSIVE FlattestLoop(_, _, _, _)
FlattestLoop(pts, st, i, stop) ==
    IF i >= stop THEN st
    ELSE LET var == MaxAlt(pts, i, i + ScenicWindow - 1)
                    - MinAlt(pts, i, i + ScenicWindow - 1) IN
         FlattestLoop(pts,
                      IF var < st.flattest_var
                      THEN [flattest_var |-> var, flattest_start |-> i]
                      ELSE st,
                      i + ScenicStride, stop)

\* 4. SCENIC, lines 230-251
ScenicScenario(pts) ==
    LET total_points == Len(pts)
        first_third_end == total_points \div 3
        st == FlattestLoop(pts, [flattest_var |-> Infinity, flattest_start |-> 0],
                           0, first_third_end - ScenicWindow)
    IN  << Scenario("scenic",
                    MaxOf(ScenicClamp, st.flattest_start),
                    MinOf(total_points - 1, st.flattest_start + ScenicWindow),
                    "recommended", "cycling-regular") >>

\* max(range(len(points)), key=alt): the first index of the greatest
\* altitude in lo .. hi, line 255
RECURSIVE HighestIdx(_, _, _)
HighestIdx(pts, lo, hi) ==
    IF lo = hi THEN lo
    ELSE LET mid == (lo + hi) \div 2
             l == HighestIdx(pts, lo, mid)
             r == HighestIdx(pts, mid + 1, hi)
         IN  IF At(pts, r).alt > At(pts, l).alt THEN r ELSE l

\* 5. SHELTERED, lines 255-270
ShelteredScenario(pts) ==
    LET highest_idx == HighestIdx(pts, 0, Len(pts) - 1) IN
    << Scenario("sheltered",
                MaxOf(0, highest_idx - ShelterMargin),
                MinOf(Len(pts) - 1, highest_idx + ShelterMargin),
                "recommended", "cycling-regular") >>

\* the list in the order the function appends to it; cl is the result of
\* find_climb_segments(points, min_gain_m=100), line 141
ScenariosFor(pts, segs, cl) ==
    FlatterScenario(pts, cl)
      \o ShorterScenario(pts)
      \o PavedScenario(pts, find_gravel_sectors(segs))
      \o ScenicScenario(pts)
      \o ShelteredScenario(pts)

pick_scenarios(pts, segs) ==
    ScenariosFor(pts, segs, find_climb_segments(pts, PickMinGain, DefaultWindow))

-----------------------------------------------------------------------------
(* generate_mock_alternative, lines 350-413.                               *)
(* Output coordinates are in the units the code rounds to: lat and lng in  *)
(* 1e-6 degree (round(x, 6)), alt in 0.1 m (round(x, 1)).                  *)

\* an exception that nothing catches, propagating out of main()
Raised == [raised |-> TRUE]

Get(d, key, default) == IF key \in DOMAIN d THEN d[key] ELSE default

\* a / b rounded toward zero, b > 0
TruncDiv(a, b) == IF a >= 0 THEN a \div b ELSE -((-a) \div b)

\* the direction of (a, b), scaled down to keep its squares in range
RECURSIVE Shrink(_, _)
Shrink(a, b) ==
    IF MaxOf(Abs(a), Abs(b)) <= 30000 THEN <<a, b>>
    ELSE Shrink(TruncDiv(a, 16), TruncDiv(b, 16))

\* 1e6 * sin(i * pi / 30) for i = 0 .. 30; sin(pi) is 1.2e-16 in floating
\* point, which the rounding to six decimals removes
SinTable ==
    << 0, 104528, 207912, 309017, 406737, 500000, 587785, 669131,
       743145, 809017, 866025, 913545, 951057, 978148, 994522, 1000000,
       994522, 978148, 951057, 913545, 866025, 809017, 743145, 669131,
       587785, 500000, 406737, 309017, 207912, 104528, 0 >>

\* sin(i * pi / 30) * p for |p| <= 150000, rounded toward zero; the product
\* is formed in two parts to stay inside 32 bits
SinTimes(i, p) ==
    LET s6 == SinTable[i + 1]
        m == (s6 \div 1000) * Abs(p) + ((s6 % 1000) * Abs(p)) \div 1000
    IN  IF p >= 0 THEN m \div 1000 ELSE -(m \div 1000)

\* line 376
n_points == 30

\* lines 371-373: offset_km, in thousandths of a degree; the unit vector
\* (perp_lat, perp_lng) is held in 1e-4, so that perp * offset is in 1e-7 degree
MockOffset(q) == IF q = "shorter" THEN 5 ELSE 15

\* line 402-403: multiplier, in percent
MockMultiplier(q) ==
    CASE q = "shorter" -> 70
      [] q = "flatter" -> 115
      [] q = "paved" -> 105
      [] q = "scenic" -> 120
      [] q = "sheltered" -> 110
      [] OTHER -> 100

\* line 363: if length == 0
MutIsDegenerate(dlat, dlng) == FALSE
IsDegenerate(dlat, dlng) == dlat = 0 /\ dlng = 0

\* lines 385-390 and round(alt, 1): the altitude of step i in decimetres,
\* from the endpoint altitudes d and r in centimetres.  The interpolated
\* altitude is (30 d + i (r - d)) / 30; pulled toward mid_alt = (d + r) / 2
\* with factor 0.3 it is (210 (d + r) + 6 (30 d + i (r - d))) / 600
MutMockAlt(q, d, r, i) == RoundDiv(30 * d + i * (r - d), 300)
MockAlt(q, d, r, i) ==
    IF q \in {"flatter", "sheltered"}
    THEN RoundDiv(210 * (d + r) + 6 * (30 * d + i * (r - d)), 6000)
    ELSE RoundDiv(30 * d + i * (r - d), 300)

\* lines 379-393: coordinate i of the arc
MockCoordinate(q, diverge, rejoin, perp_lat, perp_lng, i) ==
    LET bulge_lat == SinTimes(i, perp_lat * MockOffset(q))
        bulge_lng == SinTimes(i, perp_lng * MockOffset(q))
    IN  [lat |-> RoundDiv(n_points * diverge.lat + i * (rejoin.lat - diverge.lat)
                            + n_points * bulge_lat, 10 * n_points),
         lng |-> RoundDiv(n_points * diverge.lng + i * (rejoin.lng - diverge.lng)
                            + n_points * bulge_lng, 10 * n_points),
         alt |-> MockAlt(q, diverge.alt, rejoin.alt, i)]

\* line 364
DegenerateRoute == [coordinates |-> <<>>, distance_m |-> 0, mock |-> TRUE]

generate_mock_alternative(pts, scenario) ==
    LET diverge == At(pts, scenario.diverge_index)
        rejoin == At(pts, scenario.rejoin_index)
        dlat == rejoin.lat - diverge.lat
        dlng == rejoin.lng - diverge.lng
        v == Shrink(dlat, dlng)
        length == ISqrt(v[1] * v[1] + v[2] * v[2], Abs(v[1]) + Abs(v[2]))
    IN  IF IsDegenerate(dlat, dlng) THEN DegenerateRoute
        ELSE IF length = 0 THEN Raised   \* ZeroDivisionError, line 367
        ELSE LET perp_lat == TruncDiv((-v[2]) * 10000, length)
                 perp_lng == TruncDiv(v[1] * 10000, length)
                 q == scenario.query_value
                 orig_distance == PathLength(pts, scenario.diverge_index,
                                             scenario.rejoin_index)
             IN  [coordinates |->
                     [x \in 1..(n_points + 1) |->
                         MockCoordinate(q, diverge, rejoin, perp_lat, perp_lng, x - 1)],
                  distance_m |-> RoundDiv(orig_distance * MockMultiplier(q), 100000),
                  duration_s |-> RoundDiv(orig_distance * MockMultiplier(q), 550000),
                  ascent_m |-> 0,
                  descent_m |-> 0,
                  mock |-> TRUE]

-----------------------------------------------------------------------------
(* call_ors, lines 277-347: the provider is a black box whose answer is    *)
(* one of: a route, no feature, a transport or service error               *)

ProviderOutcomes == {"route", "no feature", "error"}

\* a decoded provider route (lines 331-343): coordinates in the output's
\* units, summary numbers rounded to integers
ProviderRoutes ==
    { [coordinates |-> << [lat |-> 10, lng |-> 20, alt |-> 2000],
                          [lat |-> 15, lng |-> 31, alt |-> 2004] >>,
       distance_m |-> 1234, duration_s |-> 400, ascent_m |-> 35, descent_m |-> 12,
       surface_info |-> <<"asphalt">>, waytype_info |-> <<>>] }

\* lines 322-324 (no feature) and 345-347 (RequestException) return None
MutProviderResult(outcome, route) ==
    CASE outcome = "route" -> route
      [] outcome = "no feature" -> NoData
      [] outcome = "error" -> Raised
ProviderResult(outcome, route) ==
    CASE outcome = "route" -> route
      [] outcome = "no feature" -> NoData
      [] outcome = "error" -> NoData

\* lines 284-286: without a key no request is made
call_ors(api_key, outcome, route) ==
    IF ~api_key THEN NoData ELSE ProviderResult(outcome, route)

-----------------------------------------------------------------------------
(* build_alternative_entry, lines 418-485 (the km_from_start annotations   *)
(* and the texts are left out)                                             *)

\* line 451
MutIsMock(rd) == TRUE
IsMock(rd) == Get(rd, "mock", FALSE)

\* lines 445-457
AltEntry(rd) ==
    LET base == [coordinates |-> rd.coordinates,
                 distance_m |-> rd.distance_m,
                 duration_s |-> Get(rd, "duration_s", 0),
                 ascent_m |-> Get(rd, "ascent_m", 0),
                 descent_m |-> Get(rd, "descent_m", 0),
                 is_mock |-> IsMock(rd)]
        surface == IF Get(rd, "surface_info", <<>>) # <<>>
                   THEN [x \in {"surface_info"} |-> rd.surface_info] ELSE <<>>
        waytype == IF Get(rd, "waytype_info", <<>>) # <<>>
                   THEN [x \in {"waytype_info"} |-> rd.waytype_info] ELSE <<>>
    IN  base @@ surface @@ waytype

\* lines 480-484
MutComparison(rd, orig_distance_m, orig_ascent_m, orig_duration_s) ==
    [distance_delta_m |-> rd.distance_m - orig_distance_m,
     ascent_delta_m |-> Get(rd, "ascent_m", 0) - orig_ascent_m,
     time_delta_s |-> orig_duration_s - Get(rd, "duration_s", 0)]
Comparison(rd, orig_distance_m, orig_ascent_m, orig_duration_s) ==
    [distance_delta_m |-> rd.distance_m - orig_distance_m,
     ascent_delta_m |-> Get(rd, "ascent_m", 0) - orig_ascent_m,
     time_delta_s |-> Get(rd, "duration_s", 0) - orig_duration_s]

build_alternative_entry(scenario, rd, pts) ==
    LET diverge == At(pts, scenario.diverge_index)
        rejoin == At(pts, scenario.rejoin_index)
        orig_distance == PathLength(pts, scenario.diverge_index, scenario.rejoin_index)
        orig_ascent == PathAscent(pts, scenario.diverge_index, scenario.rejoin_index)
        orig_duration_s == (rejoin.t - diverge.t) \div 1000
    IN  [query_value |-> scenario.query_value,
         diverge |-> [index |-> scenario.diverge_index,
                      lat |-> diverge.lat, lng |-> diverge.lng],
         rejoin |-> [index |-> scenario.rejoin_index,
                     lat |-> rejoin.lat, lng |-> rejoin.lng],
         original_segment |-> [distance_m |-> RoundDiv(orig_distance, 1000),
                               ascent_m |-> RoundDiv(orig_ascent, AltUnit)],
         alternative |-> AltEntry(rd),
         comparison |-> Comparison(rd, RoundDiv(orig_distance, 1000),
                                   RoundDiv(orig_ascent, AltUnit), orig_duration_s)]

-----------------------------------------------------------------------------
(* The routes and sector lists the pipeline is run on *)

\* altitude (centimetres) of point i of an n-point route
AltOf(shape, i, n) ==
    CASE shape = "flat"   -> 200 * AltUnit
      [] shape = "hill"   -> 5 * AltUnit * MinOf(i, n - 1 - i)
      [] shape = "ramp"   -> 3 * AltUnit * i + 7
      [] shape = "ripple" -> 200 * AltUnit + (IF i % 2 = 0 THEN 0 ELSE 11 * AltUnit)
      [] shape = "saw"    -> (2 * AltUnit + 10 * (i \div 120)) * (i % 120)

\* position (1e-7 degree) of point i of an n-point route; points are about
\* 7.8 m apart.  "rerun" comes back, ShortcutMaxGap points after the start of
\* the middle third, to where that third started and rides on 22 m beside
\* the first pass
LatOf(shape, i, n) ==
    CASE shape = "line"    -> 0
      [] shape = "still"   -> 1230
      [] shape = "retrace" -> 0
      [] shape = "loop"    -> IF 2 * i < n THEN 0 ELSE 2000
      [] shape = "fine"    -> 3 * i + 4
      [] shape = "rerun"   -> IF i < n \div 3 + ShortcutMaxGap THEN 0 ELSE 2000

LngOf(shape, i, n) ==
    CASE shape = "line"    -> 700 * i
      [] shape = "still"   -> 4560
      [] shape = "retrace" -> 700 * MinOf(i, n - 1 - i)
      [] shape = "loop"    -> 700 * MinOf(i, n - 1 - i)
      [] shape = "fine"    -> 700 * i + 7
      [] shape = "rerun"   -> IF i < n \div 3 + ShortcutMaxGap
                              THEN 700 * i ELSE 700 * (i - ShortcutMaxGap)

Route(n, ashape, gshape) ==
    [x \in 1..n |->
        [lat |-> LatOf(gshape, x - 1, n), lng |-> LngOf(gshape, x - 1, n),
         alt |-> AltOf(ashape, x - 1, n), t |-> 1500 * (x - 1)]]

\* the short routes have 1, 2 and 50 .. MaxSmallLen points
MaxSmallLen == 53
SmallLens == {1, 2} \cup (50 .. MaxSmallLen)

SmallRoutes ==
    {Route(n, a, g) : n \in SmallLens, a \in {"flat", "hill"}, g \in {"line", "still"}}
      \cup {Route(MaxSmallLen, "ramp", "fine")}

LongRoutes ==
    {Route(1801, "saw", "retrace"), Route(1800, "ripple", "line"),
     Route(1500, "hill", "loop"), Route(3100, "ripple", "rerun")}

Sector(from, to, dist) == [from_index |-> from, to_index |-> to, distance_m |-> dist]

\* segments.json for an n-point route: no sector, one gravel sector, or a
\* named and two gravel sectors of different lengths
SegmentsFor(n) ==
    { NoSegments,
      [named_sectors |-> <<>>,
       gravel_sectors |-> << Sector(n \div 4, n \div 2, 2100) >>],
      [named_sectors |-> << Sector(n \div 2, n - 1, 900) >>,
       gravel_sectors |-> << Sector(n \div 3, n \div 2, 3400), Sector(0, n \div 5, 3400) >>] }

-----------------------------------------------------------------------------
(* main(), lines 490-577 *)

Init ==
    /\ pc = "start"
    /\ ORS_KEY \in BOOLEAN
    /\ mock_only \in BOOLEAN
    /\ points \in SmallRoutes \cup LongRoutes
    /\ segments \in SegmentsFor(Len(points))
    /\ min_gain_m = PickMinGain
    /\ window = DefaultWindow
    /\ ci = 0
    /\ climbs = <<>>
    /\ scenarios = <<>> /\ k = 0 /\ route_data = NoData /\ source = ""
    /\ alternatives = <<>> /\ output = NoOutput
    /\ requests = 0 /\ syntheses = 0 /\ log = <<>>

\* lines 525-526: cum_km[s.diverge_index], cum_km[s.rejoin_index]
IndexInRange(pts, i) == 0 <= i /\ i < Len(pts)

ScenarioInRange(pts, sc) ==
    IndexInRange(pts, sc.diverge_index) /\ IndexInRange(pts, sc.rejoin_index)

\* lines 500-528: the key check, loading, pick_scenarios and the listing of
\* the scenarios, which indexes cum_km with every diverge and rejoin index
Start ==
    /\ pc = "start"
    /\ mock_only' = (mock_only \/ ~ORS_KEY)
    /\ climbs' = find_climb_segments(points, min_gain_m, window)
    /\ scenarios' = ScenariosFor(points, segments, climbs')
    /\ IF \A x \in 1..Len(scenarios') : ScenarioInRange(points, scenarios'[x])
       THEN pc' = "loop" /\ k' = 1
       ELSE pc' = "crashed" /\ k' = 0                      \* IndexError
    /\ UNCHANGED <<ORS_KEY, points, segments, min_gain_m, window, ci, route_data,
                   source, alternatives, output, requests, syntheses, log>>

\* lines 539-541
LoopMock ==
    /\ pc = "loop" /\ k <= Len(scenarios)
    /\ mock_only
    /\ route_data' = generate_mock_alternative(points, scenarios[k])
    /\ source' = "mock"
    /\ syntheses' = syntheses + 1
    /\ pc' = IF route_data' = Raised THEN "crashed" ELSE "build"
    /\ UNCHANGED <<ORS_KEY, mock_only, points, segments, min_gain_m, window, ci,
                   climbs, scenarios, k, alternatives, output, requests, log>>

\* line 543
LoopRequest ==
    /\ pc = "loop" /\ k <= Len(scenarios)
    /\ ~mock_only
    /\ \E outcome \in ProviderOutcomes, route \in ProviderRoutes :
          route_data' = call_ors(ORS_KEY, outcome, route)
    /\ requests' = IF ORS_KEY THEN requests + 1 ELSE requests
    /\ pc' = IF route_data' = Raised THEN "crashed" ELSE "got"
    /\ UNCHANGED <<ORS_KEY, mock_only, points, segments, min_gain_m, window, ci,
                   climbs, scenarios, k, source, alternatives, output, syntheses, log>>

\* lines 544-546
LoopFallback ==
    /\ pc = "got" /\ route_data = NoData
    /\ route_data' = generate_mock_alternative(points, scenarios[k])
    /\ source' = "mock (fallback)"
    /\ syntheses' = syntheses + 1
    /\ pc' = IF route_data' = Raised THEN "crashed" ELSE "build"
    /\ UNCHANGED <<ORS_KEY, mock_only, points, segments, min_gain_m, window, ci,
                   climbs, scenarios, k, alternatives, output, requests, log>>

\* lines 547-549
LoopProvided ==
    /\ pc = "got" /\ route_data # NoData
    /\ source' = "ORS"
    /\ pc' = "build"
    /\ UNCHANGED <<ORS_KEY, mock_only, points, segments, min_gain_m, window, ci,
                   climbs, scenarios, k, route_data, alternatives, output,
                   requests, syntheses, log>>

\* lines 551-552, and the next scenario of the for loop
LoopBuild ==
    /\ pc = "build"
    /\ alternatives' =
          Append(alternatives, build_alternative_entry(scenarios[k], route_data, points))
    /\ log' = Append(log, [requests |-> requests, syntheses |-> syntheses,
                           source |-> source])
    /\ k' = k + 1
    /\ requests' = 0 /\ syntheses' = 0
    /\ route_data' = NoData
    /\ pc' = "loop"
    /\ UNCHANGED <<ORS_KEY, mock_only, points, segments, min_gain_m, window, ci,
                   climbs, scenarios, source, output>>

\* line 563
GeneratedFrom(mo) == IF ~mo THEN "OpenRouteService" ELSE "geometric mock"

\* lines 561-568
WriteOutput ==
    /\ pc = "loop" /\ k > Len(scenarios)
    /\ output' = [route_id |-> "strade-bianche-granfondo",
                  generated_from |-> GeneratedFrom(mock_only),
                  alternatives |-> alternatives]
    /\ pc' = "done"
    /\ UNCHANGED <<ORS_KEY, mock_only, points, segments, min_gain_m, window, ci,
                   climbs, scenarios, k, route_data, source, alternatives,
                   requests, syntheses, log>>

Next ==
    \/ Start
    \/ LoopMock
    \/ LoopRequest
    \/ LoopFallback
    \/ LoopProvided
    \/ LoopBuild
    \/ WriteOutput

Spec == Init /\ [][Next]_vars

-----------------------------------------------------------------------------
(* Claims about the climb detector, checked under SpecClimb *)

NonDecreasing(pts) ==
    \A x \in 1..(Len(pts) - 1) : pts[x].alt <= pts[x + 1].alt

TotalGain(pts) == pts[Len(pts)].alt - pts[1].alt

\* C9: on a route whose altitude never decreases and that has more than
\* `window` points, the detector returns exactly the one climb
\* (0, n - 1, total gain) when the total gain reaches min_gain_m, and no climb
\* when it does not.
C9_MonotoneRoute ==
    (pc = "returned" /\ NonDecreasing(points) /\ Len(points) - 1 >= window)
        => IF TotalGain(points) >= min_gain_m * AltUnit
           THEN climbs = << <<0, Len(points) - 1, TotalGain(points)>> >>
           ELSE climbs = <<>>

\* the spec's case: 150 m over 60 points, min gain 100, window 50
C9_Witness ==
    /\ pc = "returned"
    /\ Len(points) = 60 /\ window = 50 /\ min_gain_m = 100
    /\ NonDecreasing(points)
    /\ climbs = << <<0, 59, 150 * AltUnit>> >>

C10_ClimbsOrdered ==
    \A x \in 1..Len(climbs) :
        /\ climbs[x][3] >= min_gain_m * AltUnit
        /\ climbs[x][2] - climbs[x][1] >= window
        /\ x > 1 => climbs[x][1] > climbs[x - 1][2]

C10_Resume ==
    pc = "climb" /\ pc' = "climb" =>
        IF climbs' # climbs
        THEN /\ climbs' = Append(climbs, climbs'[Len(climbs')])
             /\ climbs'[Len(climbs')][1] = ci
             /\ ci' = climbs'[Len(climbs')][2] + 1
        ELSE ci' = ci + 1

\* C10: the climbs are listed in increasing index order without overlap
\* (each start is greater than the previous end), each has gain >= min_gain_m
\* and end - start >= window; the scan resumes at end + 1 after a qualifying
\* run and at start + 1 after a disqualified one.
C10_NonOverlapping == [](C10_ClimbsOrdered) /\ [][C10_Resume]_vars

\* two climbs found in one scan, and the scan finished
C10_Witness ==
    /\ pc = "returned"
    /\ Len(climbs) = 2
    /\ climbs[2][1] = climbs[1][2] + 1

\* the descent (centimetres) of the step from index j to j + 1
Descent(j) == At(points, j).alt - At(points, j + 1).alt

\* C11: every returned climb (start, end, gain) has no step between start and
\* end that descends more than 10 m, its gain is the sum of the positive
\* altitude steps between start and end (smaller dips are not subtracted),
\* and it is maximal: end is the last index of the route, or the step from
\* end to end + 1 descends more than 10 m.
C11_ClimbShape ==
    \A x \in 1..Len(climbs) :
        LET start == climbs[x][1]
            end == climbs[x][2]
            gain == climbs[x][3]
        IN  /\ \A j \in start..(end - 1) : Descent(j) <= DipLimit * AltUnit
            /\ gain = PathAscent(points, start, end)
            /\ \/ end = Len(points) - 1
               \/ Descent(end) > DipLimit * AltUnit

\* a finished scan with a climb that holds a dip, so that its gain exceeds
\* its net rise, and that ends before the route does
C11_Witness ==
    /\ pc = "returned"
    /\ \E x \in 1..Len(climbs) :
          /\ \E j \in climbs[x][1]..(climbs[x][2] - 1) : Descent(j) > 0
          /\ climbs[x][3] > At(points, climbs[x][2]).alt - At(points, climbs[x][1]).alt
          /\ climbs[x][2] < Len(points) - 1

-----------------------------------------------------------------------------
(* Claims about the pipeline, checked under Spec *)

LastIndex == Len(points) - 1

\* C1 (as claimed): every scenario returned by pick_scenarios satisfies
\* 0 <= diverge_index < rejoin_index <= len(points) - 1.
C1_IndexInvariant ==
    \A x \in 1..Len(scenarios) :
        /\ 0 <= scenarios[x].diverge_index
        /\ scenarios[x].diverge_index < scenarios[x].rejoin_index
        /\ scenarios[x].rejoin_index <= LastIndex

ScenarioOrder == <<"flatter", "shorter", "paved", "scenic", "sheltered">>
Rank(q) == CHOOSE x \in 1..Len(ScenarioOrder) : ScenarioOrder[x] = q
Picked == {scenarios[x].query_value : x \in 1..Len(scenarios)}

\* C2: the scenario list is a subsequence of flatter, shorter, paved, scenic,
\* sheltered without repetition; shorter, scenic and sheltered are always
\* present, flatter exactly when the climb detector returned a climb, paved
\* exactly when the merged sector list is not empty; so it has 3 to 5 entries.
C2_ScenarioList ==
    pc # "start" =>
        /\ \A x \in 1..Len(scenarios) : scenarios[x].query_value \in Picked
                                        /\ \E y \in 1..5 : ScenarioOrder[y] = scenarios[x].query_value
        /\ \A x, y \in 1..Len(scenarios) :
              x < y => Rank(scenarios[x].query_value) < Rank(scenarios[y].query_value)
        /\ {"shorter", "scenic", "sheltered"} \subseteq Picked
        /\ ("flatter" \in Picked) <=> (climbs # <<>>)
        /\ ("paved" \in Picked) <=>
              (segments.named_sectors \o segments.gravel_sectors # <<>>)
        /\ Len(scenarios) >= 3 /\ Len(scenarios) <= 5

\* a route with a climb and sectors: all five scenarios, in order
C2_Witness ==
    /\ pc = "done"
    /\ [x \in 1..Len(scenarios) |-> scenarios[x].query_value] = ScenarioOrder
    /\ climbs # <<>>

\* C3: per scenario the provider is requested at most once, an absent result
\* is followed by exactly one synthesis, exactly one record is appended
\* before the next scenario starts, and no provider outcome aborts the batch:
\* the output has one record per scenario, in scenario order.
C3_OneRecordPerScenario ==
    /\ requests <= 1 /\ syntheses <= 1
    /\ pc \in {"loop", "got", "build"} =>
          Len(alternatives) = k - 1 /\ Len(log) = k - 1
    /\ pc = "got" => requests = 1 /\ syntheses = 0
    /\ (pc = "build" /\ source = "mock (fallback)") => requests = 1 /\ syntheses = 1
    /\ \A x \in 1..Len(log) :
          /\ log[x].requests <= 1
          /\ log[x].source = "mock (fallback)" =>
                log[x].requests = 1 /\ log[x].syntheses = 1
          /\ log[x].source = "ORS" => log[x].requests = 1 /\ log[x].syntheses = 0
    /\ pc = "crashed" => k = 0
    /\ pc = "done" =>
          /\ Len(output.alternatives) = Len(scenarios)
          /\ \A x \in 1..Len(scenarios) :
                output.alternatives[x].query_value = scenarios[x].query_value

\* a finished batch in which the provider both answered and failed
C3_Witness ==
    /\ pc = "done"
    /\ \E x, y \in 1..Len(log) :
          log[x].source = "mock (fallback)" /\ log[y].source = "ORS" /\ x < y
    /\ Len(output.alternatives) = Len(scenarios)

\* C4: alternative.is_mock is true exactly for the records whose geometry was
\* synthesized and false exactly for those that came from the provider; with
\* no provider configured every record has is_mock = true.
C4_ProvenanceFlag ==
    /\ Len(log) = Len(alternatives)
    /\ \A x \in 1..Len(alternatives) :
          /\ alternatives[x].alternative.is_mock <=> log[x].syntheses = 1
          /\ ~alternatives[x].alternative.is_mock <=>
                (log[x].requests = 1 /\ log[x].syntheses = 0 /\ log[x].source = "ORS")
          /\ ~ORS_KEY => alternatives[x].alternative.is_mock
    /\ pc = "done" => output.alternatives = alternatives

C4_Witness ==
    /\ pc = "done"
    /\ \E x, y \in 1..Len(alternatives) :
          /\ alternatives[x].alternative.is_mock
          /\ log[x].source = "mock (fallback)"
          /\ ~alternatives[y].alternative.is_mock

\* C5 (as claimed): when every record of the output was synthesized,
\* generated_from does not name the external provider.
C5_TopLevelProvenance ==
    (pc = "done" /\ \A x \in 1..Len(output.alternatives) :
                        output.alternatives[x].alternative.is_mock)
        => output.generated_from # "OpenRouteService"

Synthesized(x) == log[x].syntheses = 1
DivergePoint(x) == At(points, alternatives[x].diverge.index)
RejoinPoint(x) == At(points, alternatives[x].rejoin.index)
SamePlace(x) ==
    DivergePoint(x).lat = RejoinPoint(x).lat /\ DivergePoint(x).lng = RejoinPoint(x).lng
Coordinates(x) == alternatives[x].alternative.coordinates
Flattened(x) == alternatives[x].query_value \in {"flatter", "sheltered"}

\* C6 (as claimed): a synthesized geometry between two different places has
\* 31 coordinates, the first equal to the diverge point and the last equal to
\* the rejoin point in latitude, longitude and altitude, for every kind.
C6_EndpointsExact ==
    \A x \in 1..Len(alternatives) :
        (Synthesized(x) /\ ~SamePlace(x)) =>
            /\ Len(Coordinates(x)) = 31
            /\ Coordinates(x)[1].lat * 10 = DivergePoint(x).lat
            /\ Coordinates(x)[1].lng * 10 = DivergePoint(x).lng
            /\ Coordinates(x)[1].alt * 10 = DivergePoint(x).alt
            /\ Coordinates(x)[31].lat * 10 = RejoinPoint(x).lat
            /\ Coordinates(x)[31].lng * 10 = RejoinPoint(x).lng
            /\ Coordinates(x)[31].alt * 10 = RejoinPoint(x).alt

\* TRUE iff c, a value in units of `unit` input units, is x rounded to that
\* unit: within half a unit of x, and equal to x when x is a whole number of
\* units (which of the two neighbours an exact tie goes to is not fixed)
RoundedTo(c, x, unit) ==
    /\ 2 * Abs(c * unit - x) <= unit
    /\ x % unit = 0 => c * unit = x

\* C6 (amended): such a geometry has 31 coordinates; the first and last are
\* the diverge and rejoin points in latitude and longitude rounded to six
\* decimals; in altitude they are those points rounded to one decimal for
\* shorter, paved and scenic, while for flatter and sheltered the first
\* altitude is 0.65 diverge + 0.35 rejoin and the last 0.35 diverge + 0.65
\* rejoin, rounded to one decimal.
C6_EndpointsRounded ==
    \A x \in 1..Len(alternatives) :
        (Synthesized(x) /\ ~SamePlace(x)) =>
            LET d == DivergePoint(x)
                r == RejoinPoint(x)
                c == Coordinates(x)
            IN  /\ Len(c) = 31
                /\ RoundedTo(c[1].lat, d.lat, 10) /\ RoundedTo(c[1].lng, d.lng, 10)
                /\ RoundedTo(c[31].lat, r.lat, 10) /\ RoundedTo(c[31].lng, r.lng, 10)
                /\ IF Flattened(x)
                   THEN /\ RoundedTo(c[1].alt, 65 * d.alt + 35 * r.alt, 1000)
                        /\ RoundedTo(c[31].alt, 35 * d.alt + 65 * r.alt, 1000)
                   ELSE /\ RoundedTo(c[1].alt, d.alt, 10)
                        /\ RoundedTo(c[31].alt, r.alt, 10)

\* a synthesized flatter geometry whose first altitude is not the diverge
\* point's, next to a synthesized scenic one whose endpoints are exact
C6_Witness ==
    \E x, y \in 1..Len(alternatives) :
        /\ Synthesized(x) /\ ~SamePlace(x) /\ alternatives[x].query_value = "flatter"
        /\ Coordinates(x)[1].alt * 10 # DivergePoint(x).alt
        /\ Synthesized(y) /\ ~SamePlace(y) /\ alternatives[y].query_value = "scenic"
        /\ Coordinates(y)[1].alt * 10 = DivergePoint(y).alt
        /\ Coordinates(y)[31].lng * 10 = RejoinPoint(y).lng

\* C7: in every record each comparison delta is the alternative's value minus
\* the original segment's: distance, ascent, and duration, the original
\* duration being (rejoin.t - diverge.t) in whole seconds.
C7_Deltas ==
    \A x \in 1..Len(alternatives) :
        LET e == alternatives[x] IN
        /\ e.comparison.distance_delta_m
              = e.alternative.distance_m - e.original_segment.distance_m
        /\ e.comparison.ascent_delta_m
              = e.alternative.ascent_m - e.original_segment.ascent_m
        /\ e.comparison.time_delta_s
              = e.alternative.duration_s
                  - ((RejoinPoint(x).t - DivergePoint(x).t) \div 1000)

\* a provider record and a synthesized one, each over a segment whose
\* duration is not a whole number of seconds
C7_Witness ==
    \E x, y \in 1..Len(alternatives) :
        /\ ~alternatives[x].alternative.is_mock
        /\ alternatives[x].alternative.duration_s > 0
        /\ (RejoinPoint(x).t - DivergePoint(x).t) % 1000 # 0
        /\ alternatives[x].comparison.time_delta_s < 0
        /\ alternatives[y].alternative.is_mock
        /\ alternatives[y].original_segment.ascent_m > 0

\* C8: when the diverge and rejoin points share latitude and longitude, the
\* synthesizer returns no coordinates and distance 0 without dividing by
\* zero, the record is complete (the three deltas are numbers) and the batch
\* goes on to the remaining scenarios.
C8_Degenerate ==
    /\ \A x \in 1..Len(alternatives) :
          (Synthesized(x) /\ SamePlace(x)) =>
              LET e == alternatives[x] IN
              /\ e.alternative.coordinates = <<>>
              /\ e.alternative.distance_m = 0
              /\ e.alternative.is_mock
              /\ DOMAIN e.comparison
                    = {"distance_delta_m", "ascent_delta_m", "time_delta_s"}
              /\ e.comparison.distance_delta_m = 0 - e.original_segment.distance_m
              /\ e.comparison.ascent_delta_m = 0 - e.original_segment.ascent_m
              /\ e.comparison.time_delta_s \in Int
    /\ (pc = "build" /\ syntheses = 1
          /\ At(points, scenarios[k].diverge_index).lat = At(points, scenarios[k].rejoin_index).lat
          /\ At(points, scenarios[k].diverge_index).lng = At(points, scenarios[k].rejoin_index).lng)
          => route_data = DegenerateRoute
    /\ pc = "crashed" => k = 0 /\ alternatives = <<>>
    /\ pc = "done" => Len(output.alternatives) = Len(scenarios)

\* a finished batch with a degenerate record followed by a regular one
C8_Witness ==
    /\ pc = "done"
    /\ \E x, y \in 1..Len(alternatives) :
          /\ x < y
          /\ Synthesized(x) /\ SamePlace(x) /\ Coordinates(x) = <<>>
          /\ DivergePoint(x).t # RejoinPoint(x).t
          /\ Synthesized(y) /\ Len(Coordinates(y)) = 31

-----------------------------------------------------------------------------
(* Claims about the shortcut search, checked under Spec *)

\* the shorter scenario of the list (always present)
Shorter ==
    scenarios[CHOOSE x \in 1..Len(scenarios) : scenarios[x].query_value = "shorter"]

MidStart == Len(points) \div 3
MidEnd == (2 * Len(points)) \div 3

\* direct distance (millimetres) between points[p[1]] and points[p[2]]
Direct(p) ==
    haversine(At(points, p[1]).lat, At(points, p[1]).lng,
              At(points, p[2]).lat, At(points, p[2]).lng)

\* the stride-100 pairs (i, j) inside the middle third with j from 400 up to
\* `most` indices ahead of i
SampledPairs(most) ==
    LET span == MidEnd - MidStart
        starts == {MidStart + ShortcutStep * a : a \in 0..(span \div ShortcutStep)}
        gaps == {ShortcutMinGap + ShortcutStep * b :
                    b \in 0..((most - ShortcutMinGap) \div ShortcutStep)}
    IN  {p \in {<<i, i + g>> : i \in starts, g \in gaps} : p[2] < MidEnd}

\* the scenario is the closest pair of P when one is under 3 km, else the
\* fixed split
ShortestOf(P) ==
    LET chosen == <<Shorter.diverge_index, Shorter.rejoin_index>> IN
    IF \E p \in P : Direct(p) < ShortcutKm * 1000000
    THEN /\ chosen \in P
         /\ \A p \in P : Direct(chosen) <= Direct(p)
    ELSE chosen = <<MidStart, MidEnd>>

\* C12 (as claimed): the shorter scenario is the closest of the sampled pairs
\* of the middle third with j at least 400 and at most 1000 indices ahead of
\* i when that pair is under 3 km, and the fixed split (len // 3,
\* 2 * len // 3) when no sampled pair is.
C12_ShortestPair ==
    pc # "start" => ShortestOf(SampledPairs(ShortcutMaxGap))

\* what the search of lines 173-178 does cover (range excludes i + 1000):
\* gaps of 400 up to 900
C12_SearchedPairs ==
    pc # "start" => ShortestOf(SampledPairs(ShortcutMaxGap - ShortcutStep))

====
